---------------------------- MODULE Spec2Model ----------------------------
(***************************************************************************)
(* Write-durability test harness: the two transaction simulators (the      *)
(* multi-slot versioned policy and the monotonic single-header policy),    *)
(* the durability barriers they apply, and the two post-crash verifiers.   *)
(*                                                                         *)
(* Addresses, offsets and lengths are counted in size_t words (the unit of *)
(* every access the programs make), so PAGE_SIZE is the page size in words,*)
(* a header record is 4 words, memset_pattern16 tiles a 2-word pattern and *)
(* memset_pattern8 a 1-word pattern.  A file is the sequence of its words. *)
(***************************************************************************)
EXTENDS Integers, Sequences, FiniteSets, TLC

\* ------------------------------------------------------------------ bounds
\* PAGE_SIZE comes from <mach/vm_param.h>; the smallest page that holds the
\* 16-record header table is used.
PAGE_SIZE == 64
\* width of size_t in bits; arithmetic on untrusted header fields wraps
SizeBits == 13
\* both simulators loop "for (i = 0; i < 1024; ++i)"; the model runs this many
MaxIterations == 2
\* at a crash, at most this many of the operations issued since the last
\* effective barrier land out of step with the rest (see KeepSets)
MaxPartial == 1

\* ------------------------------------------------------- program constants
file_page_count_increment == 16
versions_per_file_size == 8
HeaderEntries == 16
HeaderEntrySize == 4
FirstPageCount == 10
PageCountStep == 10

SizeMod == 2 ^ SizeBits
\* std::numeric_limits<size_t>::max(), the sentinel marker
SIZE_MAX == SizeMod - 1

Max(a, b) == IF a >= b THEN a ELSE b

\* ------------------------------------------------------------ file memory
\* A file is its length in words and its pages; the last page is zero past
\* the end of the file, which is also what a mapping of the file shows.
ZeroPage == [k \in 1..PAGE_SIZE |-> 0]
EmptyFile == [size |-> 0, pages |-> <<>>]
PagesFor(n) == (n + PAGE_SIZE - 1) \div PAGE_SIZE

\* memset_pattern8 / memset_pattern16: the pattern repeated over n words,
\* the last repetition cut where the buffer ends.
memset_pattern(pattern, n) ==
    [k \in 1..n |-> pattern[((k - 1) % Len(pattern)) + 1]]

\* ftruncate: the file cut or zero-extended to length words.
ftruncate(f, length) ==
    [size |-> length,
     pages |-> [p \in 1..PagesFor(length) |->
                  IF p > Len(f.pages) THEN ZeroPage
                  ELSE IF p * PAGE_SIZE <= length THEN f.pages[p]
                  ELSE [k \in 1..PAGE_SIZE |->
                          IF (p - 1) * PAGE_SIZE + k <= length THEN f.pages[p][k] ELSE 0]]]

\* pwrite / memcpy into the mapping: data stored at offset (a positional
\* write past the end of the file extends it, the gap reading as zero).
StoreAt(f, offset, data) ==
    LET size == Max(f.size, offset + Len(data))
        first == offset \div PAGE_SIZE + 1
        last == (offset + Len(data) - 1) \div PAGE_SIZE + 1
        old(p) == IF p <= Len(f.pages) THEN f.pages[p] ELSE ZeroPage
    IN  [size |-> size,
         pages |-> [p \in 1..PagesFor(size) |->
                      IF p < first \/ p > last THEN old(p)
                      ELSE [k \in 1..PAGE_SIZE |->
                              LET a == (p - 1) * PAGE_SIZE + k
                              IN  IF a > offset /\ a <= offset + Len(data)
                                  THEN data[a - offset] ELSE old(p)[k]]]]

\* the word at offset a of the mapping (zero between the end of the file and
\* the end of its last page)
Word(f, a) ==
    IF a < f.size THEN f.pages[a \div PAGE_SIZE + 1][(a % PAGE_SIZE) + 1] ELSE 0

\* the n words at [offset, offset + n): a whole page of the file as it is
\* stored, anything else word by word
ReadAt(f, offset, n) ==
    IF n = PAGE_SIZE /\ offset % PAGE_SIZE = 0 /\ offset + n <= f.size
    THEN f.pages[offset \div PAGE_SIZE + 1]
    ELSE [k \in 1..n |-> Word(f, offset + k - 1)]

\* ------------------------------------------------------------- simulators
VARIABLES
    policy,                  \* "multi" (16 versioned slots) or "single" (size header)
    write_strategy,          \* "mmap" or "write": the writer_factory chosen
    write_sync_strategies,   \* barrier list applied after each write group
    extend_sync_strategies,  \* barrier list applied after each extension
    pc,                      \* position of main
    i,                       \* outer loop counter
    j,                       \* inner loop counter
    m_length,                \* WriteStrategy::m_length
    m_buffer,                \* length of the live mapping, 0 for nullptr
    file,                    \* the file as written (what the page cache holds)
    disk,                    \* the file as stable storage holds it
    pending,                 \* operations issued since the last effective barrier
    last_sync,               \* system calls issued by the last applied barrier list
    trace,                   \* what main has called in the current growth step, in order
    mappings,                \* lengths of the live mappings of the file
    success,                 \* the verifier's "bool success"
    classes,                 \* slot or page -> how the verifier classified it
    verdict,                 \* "none" while running, then what the verifier reported
    exit_code                \* the verifier's exit status, -1 while running

config == <<policy, write_strategy, write_sync_strategies, extend_sync_strategies>>
verifier == <<success, classes, verdict, exit_code>>
vars == <<config, pc, i, j, m_length, m_buffer, file, disk, pending, last_sync, trace,
          mappings, verifier>>

\* names accepted by sync_strategies_by_name of each program
SyncNames(p) ==
    IF p = "multi" THEN {"none", "msync", "fsync", "fullfsync", "fsyncparent"}
    ELSE {"none", "msync", "fsync", "fullfsync"}

\* the barrier lists of the README's result tables, and each single barrier
SyncLists(p) ==
    {<<n>> : n \in SyncNames(p)} \cup {<<"msync", "fsync">>, <<"msync", "fullfsync">>}

\* an msync member that calls msync whatever the buffer and the length are
SyncCall_Unconditional(name, buffer, length) ==
    CASE name = "none" -> <<>>
      [] name = "msync" -> <<"msync">>
      [] name = "fsync" -> <<"fsync">>
      [] name = "fsyncparent" -> <<"fsync_parent">>
      [] name = "fullfsync" -> <<"F_FULLFSYNC">>

\* the system call one barrier issues, if any (SyncStrategy::sync overrides)
SyncCall(name, buffer, length) ==
    CASE name = "none" -> <<>>
      [] name = "msync" -> IF buffer = 0 \/ length = 0 THEN <<>> ELSE <<"msync">>
      [] name = "fsync" -> <<"fsync">>
      [] name = "fsyncparent" -> <<"fsync_parent">>
      [] name = "fullfsync" -> <<"F_FULLFSYNC">>

\* WriteStrategy::sync: each member of the list in order
RECURSIVE SyncCalls(_, _, _)
SyncCalls(strategies, buffer, length) ==
    IF strategies = <<>> THEN <<>>
    ELSE SyncCall(Head(strategies), buffer, length)
         \o SyncCalls(Tail(strategies), buffer, length)

\* F_FULLFSYNC is the barrier taken to push every earlier extension and write
\* to stable storage; the others give no guarantee at a power loss.
MakesDurable(calls) == \E k \in 1..Len(calls) : calls[k] = "F_FULLFSYNC"

ExtendOp(length) == [op |-> "extend", offset |-> 0, length |-> length, pattern |-> <<>>]
WriteOp(offset, pattern, length) ==
    [op |-> "write", offset |-> offset, length |-> length, pattern |-> pattern]

ApplyOp(d, o) ==
    IF o.op = "extend" THEN ftruncate(d, o.length)
    ELSE StoreAt(d, o.offset, memset_pattern(o.pattern, o.length))

\* stable storage after the operations ops[k], k \in keep, landed in order
RECURSIVE Durable(_, _, _, _)
Durable(d, ops, keep, k) ==
    IF k > Len(ops) THEN d
    ELSE Durable(IF k \in keep THEN ApplyOp(d, ops[k]) ELSE d, ops, keep, k + 1)

RECURSIVE SubsetsUpTo(_, _)
SubsetsUpTo(U, m) ==
    IF m = 0 THEN {{}}
    ELSE LET prev == SubsetsUpTo(U, m - 1)
         IN  prev \cup {S \cup {x} : S \in prev, x \in U}

\* which pending operations reached stable storage at a power loss: all but
\* at most MaxPartial of them, or at most MaxPartial of them
KeepSets(n) ==
    LET small == SubsetsUpTo(1..n, MaxPartial)
    IN  small \cup {(1..n) \ S : S \in small}

\* a remap that maps the new length without releasing the old mapping
remap_NoUnmap(maps, buffer, old_length, new_length) ==
    IF new_length = 0 THEN maps ELSE Append(maps, new_length)

\* MMapWriteStrategy::remap: the mappings live after it
remap(maps, buffer, old_length, new_length) ==
    LET released == IF buffer # 0 /\ old_length # 0
                    THEN SelectSeq(maps, LAMBDA m : m # old_length) ELSE maps
    IN  IF new_length = 0 THEN released ELSE Append(released, new_length)

\* the calls extend makes: ftruncate, and on the mapped path munmap and mmap
ExtendCalls(buffer, old_length, new_length) ==
    <<"ftruncate">>
        \o (IF write_strategy # "mmap" THEN <<>>
            ELSE (IF buffer # 0 /\ old_length # 0 THEN <<"munmap">> ELSE <<>>)
                 \o (IF new_length # 0 THEN <<"mmap">> ELSE <<>>))

\* the trace a growth step starts from: the first step follows the creation
StepTrace == IF i = 0 THEN trace ELSE <<>>

\* WriteStrategy::extend / MMapWriteStrategy::extend + remap
ExtendTo(length) ==
    /\ file' = ftruncate(file, length)
    /\ m_length' = length
    /\ m_buffer' = IF write_strategy = "mmap" THEN length ELSE m_buffer
    /\ pending' = Append(pending, ExtendOp(length))
    /\ mappings' = IF write_strategy = "mmap"
                   THEN remap(mappings, m_buffer, m_length, length) ELSE mappings
    /\ trace' = StepTrace \o ExtendCalls(m_buffer, m_length, length)

\* PWriteWriteStrategy::write / MMapWriteStrategy::write of a buffer filled by
\* memset_pattern (or of the header record itself)
WriteTo(offset, pattern, length) ==
    /\ write_strategy = "mmap" => (offset + length <= m_length /\ offset + length <= m_buffer)
    /\ file' = StoreAt(file, offset, memset_pattern(pattern, length))
    /\ pending' = Append(pending, WriteOp(offset, pattern, length))
    /\ trace' = Append(trace, pc)

\* a sync that issues the calls of the list but waits for nothing
SyncWith_Unapplied(strategies) ==
    /\ last_sync' = SyncCalls(strategies, m_buffer, m_length)
    /\ trace' = trace \o strategies
    /\ UNCHANGED <<disk, pending>>

\* a sync that walks the list from its last member to its first
SyncWith_Reversed(strategies) ==
    LET reversed == [k \in 1..Len(strategies) |-> strategies[Len(strategies) + 1 - k]]
        calls == SyncCalls(reversed, m_buffer, m_length)
    IN  /\ last_sync' = calls
        /\ trace' = trace \o reversed
        /\ IF MakesDurable(calls)
           THEN disk' = file /\ pending' = <<>>
           ELSE UNCHANGED <<disk, pending>>

\* writer->sync(strategies)
SyncWith(strategies) ==
    LET calls == SyncCalls(strategies, m_buffer, m_length)
    IN  /\ last_sync' = calls
        /\ trace' = trace \o strategies
        /\ IF MakesDurable(calls)
           THEN disk' = file /\ pending' = <<>>
           ELSE UNCHANGED <<disk, pending>>

\* WriteStrategy::WriteStrategy: the calls of a creation that succeeds
\* (the oldest simulator opens the directory before the file)
CreateCalls(p) ==
    IF p = "basic" THEN <<"opendir", "open", "fsync_parent">>
    ELSE <<"open", "opendir", "fsync_parent">>

SimInit(lists(_)) ==
    /\ policy \in {"multi", "single"}
    /\ write_strategy \in {"mmap", "write"}
    /\ write_sync_strategies \in lists(policy)
    /\ extend_sync_strategies \in lists(policy)
    /\ pc = "extend"
    /\ i = 0
    /\ j = 0
    /\ m_length = 0
    /\ m_buffer = 0
    /\ file = EmptyFile
    /\ disk = EmptyFile
    /\ pending = <<>>
    /\ last_sync = <<>>
    /\ trace = CreateCalls(policy)
    /\ mappings = <<>>
    /\ success = TRUE
    /\ classes = <<>>
    /\ verdict = "none"
    /\ exit_code = -1

\* ---- multi-slot versioned policy
MultiPageCount(n) == file_page_count_increment * (n + 1) + 1
\* the base offset of the first growth step in every step
MultiBaseOffset_FirstStep(n) == PAGE_SIZE

\* a base offset one growth step ahead of the file
MultiBaseOffset_NextStep(n) == MultiPageCount(n) * PAGE_SIZE

MultiBaseOffset(n) == (MultiPageCount(n) - file_page_count_increment) * PAGE_SIZE
\* a slot rewritten with all its versions before the next slot is touched
MultiIndex_Consecutive(n) == n \div versions_per_file_size

MultiIndex(n) == n % file_page_count_increment
MultiVersion(n) == n \div file_page_count_increment

MultiExtend ==
    /\ policy = "multi" /\ pc = "extend" /\ i < MaxIterations
    /\ ExtendTo(MultiPageCount(i) * PAGE_SIZE)
    /\ pc' = "sync_extend"
    /\ UNCHANGED <<config, verifier, i, j, disk, last_sync>>

MultiWriteData ==
    /\ policy = "multi" /\ pc = "write_data"
    /\ WriteTo(MultiBaseOffset(i) + MultiIndex(j) * PAGE_SIZE,
               <<MultiIndex(j), MultiVersion(j)>>, PAGE_SIZE)
    /\ pc' = "sync_data"
    /\ UNCHANGED <<config, verifier, i, j, m_length, m_buffer, mappings, disk, last_sync>>

\* a header record that carries the rewrite counter in place of the version
MultiWriteHeader_Counter ==
    /\ policy = "multi" /\ pc = "write_header"
    /\ WriteTo(MultiIndex(j) * HeaderEntrySize,
               <<MultiBaseOffset(i), MultiIndex(j), j, SIZE_MAX>>, HeaderEntrySize)
    /\ pc' = "sync_header"
    /\ UNCHANGED <<config, verifier, i, j, m_length, m_buffer, mappings, disk, last_sync>>

\* a header record written without the sentinel
MultiWriteHeader_NoSentinel ==
    /\ policy = "multi" /\ pc = "write_header"
    /\ WriteTo(MultiIndex(j) * HeaderEntrySize,
               <<MultiBaseOffset(i), MultiIndex(j), MultiVersion(j), 0>>, HeaderEntrySize)
    /\ pc' = "sync_header"
    /\ UNCHANGED <<config, verifier, i, j, m_length, m_buffer, mappings, disk, last_sync>>

MultiWriteHeader ==
    /\ policy = "multi" /\ pc = "write_header"
    /\ WriteTo(MultiIndex(j) * HeaderEntrySize,
               <<MultiBaseOffset(i), MultiIndex(j), MultiVersion(j), SIZE_MAX>>,
               HeaderEntrySize)
    /\ pc' = "sync_header"
    /\ UNCHANGED <<config, verifier, i, j, m_length, m_buffer, mappings, disk, last_sync>>

\* ---- monotonic single-header policy
\* page counts that go down from one transaction to the next
SinglePageCount_Shrinking(n) == FirstPageCount + (MaxIterations - 1 - n) * PageCountStep

SinglePageCount(n) == FirstPageCount + n * PageCountStep

SingleExtend ==
    /\ policy = "single" /\ pc = "extend" /\ i < MaxIterations
    /\ ExtendTo(SinglePageCount(i) * PAGE_SIZE)
    /\ pc' = "sync_extend"
    /\ UNCHANGED <<config, verifier, i, j, disk, last_sync>>

SingleWriteBody ==
    /\ policy = "single" /\ pc = "write_data"
    /\ WriteTo((SinglePageCount(i) - j) * PAGE_SIZE, <<j>>, PAGE_SIZE)
    /\ j' = j + 1
    /\ pc' = IF j + 1 < SinglePageCount(i) THEN "write_data" ELSE "sync_data"
    /\ UNCHANGED <<config, verifier, i, m_length, m_buffer, mappings, disk, last_sync>>

\* a header page that carries the page count in place of the size
SingleWriteHeader_PageCount ==
    /\ policy = "single" /\ pc = "write_header"
    /\ WriteTo(0, <<SinglePageCount(i)>>, PAGE_SIZE)
    /\ pc' = "sync_header"
    /\ UNCHANGED <<config, verifier, i, j, m_length, m_buffer, mappings, disk, last_sync>>

SingleWriteHeader ==
    /\ policy = "single" /\ pc = "write_header"
    /\ WriteTo(0, <<SinglePageCount(i) * PAGE_SIZE>>, PAGE_SIZE)
    /\ pc' = "sync_header"
    /\ UNCHANGED <<config, verifier, i, j, m_length, m_buffer, mappings, disk, last_sync>>

\* ---- the barrier lists, shared by both programs
\* the first write following the extension with no barrier list between
SyncExtend_Skipped ==
    /\ pc = "sync_extend"
    /\ pc' = "write_data"
    /\ j' = IF policy = "multi" THEN 0 ELSE 1
    /\ UNCHANGED <<config, verifier, i, m_length, m_buffer, mappings, file, disk, pending,
                   last_sync, trace>>

SyncExtend ==
    /\ pc = "sync_extend"
    /\ SyncWith(extend_sync_strategies)
    /\ pc' = "write_data"
    /\ j' = IF policy = "multi" THEN 0 ELSE 1
    /\ UNCHANGED <<config, verifier, i, m_length, m_buffer, mappings, file>>

\* the header write following the data write with no barrier list between
SyncData_Skipped ==
    /\ pc = "sync_data"
    /\ pc' = "write_header"
    /\ UNCHANGED <<config, verifier, i, j, m_length, m_buffer, mappings, file, disk,
                   pending, last_sync, trace>>

SyncData ==
    /\ pc = "sync_data"
    /\ SyncWith(write_sync_strategies)
    /\ pc' = "write_header"
    /\ UNCHANGED <<config, verifier, i, j, m_length, m_buffer, mappings, file>>

\* the barrier list after the header write, then the loop increments
SyncHeader ==
    /\ pc = "sync_header"
    /\ SyncWith(write_sync_strategies)
    /\ LET more == policy = "multi"
                   /\ j + 1 < file_page_count_increment * versions_per_file_size
       IN  /\ j' = IF more THEN j + 1 ELSE j
           /\ i' = IF more THEN i ELSE i + 1
           /\ pc' = IF more THEN "write_data"
                    ELSE IF i + 1 < MaxIterations THEN "extend" ELSE "done"
    /\ UNCHANGED <<config, verifier, m_length, m_buffer, mappings, file>>

\* power loss: some of the pending operations reached stable storage
Crash ==
    /\ pc # "crashed"
    /\ \E keep \in KeepSets(Len(pending)) :
          disk' = Durable(disk, pending, keep, 1)
    /\ file' = disk'
    /\ pending' = <<>>
    /\ pc' = "crashed"
    /\ m_buffer' = 0
    /\ mappings' = <<>>
    /\ UNCHANGED <<config, verifier, i, j, m_length, last_sync, trace>>

SimNext ==
    \/ MultiExtend \/ MultiWriteData \/ MultiWriteHeader
    \/ SingleExtend \/ SingleWriteBody \/ SingleWriteHeader
    \/ SyncExtend \/ SyncData \/ SyncHeader

\* ---- creation, and calls that fail
\* a file of the same name left behind by an earlier run
StaleFile == [size |-> PAGE_SIZE, pages |-> <<memset_pattern(<<SIZE_MAX>>, PAGE_SIZE)>>]

\* the calls up to and including call c, then the failure
FailingAt(calls, c) ==
    SubSeq(calls, 1, CHOOSE k \in 1..Len(calls) : calls[k] = c) \o <<"failed">>

\* an open without O_EXCL: a file that exists is opened and written over
Create_NonExclusive ==
    /\ pc = "create"
    /\ \E failing \in {"none", "open", "opendir", "fsync_parent"} :
          IF failing = "none"
          THEN trace' = CreateCalls(policy) /\ pc' = "extend"
          ELSE trace' = FailingAt(CreateCalls(policy), failing) /\ pc' = "aborted"
    /\ UNCHANGED <<config, verifier, i, j, m_length, m_buffer, mappings, file, disk,
                   pending, last_sync>>

\* WriteStrategy::WriteStrategy (main of the oldest simulator up to its loop):
\* open with O_CREAT | O_EXCL, opendir, fsync of the directory; each can fail,
\* and the open does fail when the file exists
Create ==
    /\ pc = "create"
    /\ \E outcome \in {"none", "open", "opendir", "fsync_parent"} :
          LET failing == IF file # EmptyFile THEN "open" ELSE outcome
          IN  IF failing = "none"
              THEN trace' = CreateCalls(policy) /\ pc' = "extend"
              ELSE /\ trace' = FailingAt(CreateCalls(policy), failing)
                   /\ pc' = "aborted"
    /\ UNCHANGED <<config, verifier, i, j, m_length, m_buffer, mappings, file, disk,
                   pending, last_sync>>

\* writer->extend(file_size) throws: ftruncate fails and nothing has changed,
\* or mmap fails after the file has grown and the old mapping is gone
ExtendFails ==
    /\ policy \in {"multi", "single"} /\ pc = "extend" /\ i < MaxIterations
    /\ LET length == PAGE_SIZE * (IF policy = "multi" THEN MultiPageCount(i)
                                   ELSE SinglePageCount(i))
       IN  \/ /\ trace' = StepTrace \o <<"ftruncate", "failed">>
              /\ UNCHANGED <<file, m_length, m_buffer, mappings, pending>>
           \/ /\ write_strategy = "mmap"
              /\ file' = ftruncate(file, length)
              /\ m_length' = length
              /\ m_buffer' = 0
              /\ mappings' = remap(mappings, m_buffer, m_length, 0)
              /\ pending' = Append(pending, ExtendOp(length))
              /\ trace' = StepTrace \o ExtendCalls(m_buffer, m_length, length)
                             \o <<"failed">>
    /\ pc' = "aborted"
    /\ UNCHANGED <<config, verifier, i, j, disk, last_sync>>

\* writer->write throws: pwrite did not take the whole buffer
WriteFails ==
    /\ policy \in {"multi", "single"} /\ pc \in {"write_data", "write_header"}
    /\ write_strategy = "write"
    /\ trace' = trace \o <<pc, "failed">>
    /\ pc' = "aborted"
    /\ UNCHANGED <<config, verifier, i, j, m_length, m_buffer, mappings, file, disk,
                   pending, last_sync>>

\* the members of a barrier list up to member failing (all of them when
\* failing = 0), the last of which fails: what they call and make durable
SyncUpTo(strategies, buffer, length, failing) ==
    LET members == IF failing = 0 THEN strategies ELSE SubSeq(strategies, 1, failing)
        returned == IF failing = 0 THEN strategies ELSE SubSeq(strategies, 1, failing - 1)
    IN  /\ last_sync' = SyncCalls(members, buffer, length)
        /\ trace' = trace \o members \o (IF failing = 0 THEN <<>> ELSE <<"failed">>)
        /\ IF MakesDurable(SyncCalls(returned, buffer, length))
           THEN disk' = file /\ pending' = <<>>
           ELSE UNCHANGED <<disk, pending>>

\* the members of a list that make a call, which can fail
CanFail(strategies, buffer, length) ==
    {k \in 1..Len(strategies) : SyncCall(strategies[k], buffer, length) # <<>>}

\* writer->sync(strategies) throws at one of its members
SyncFails ==
    /\ policy \in {"multi", "single"}
    /\ pc \in {"sync_extend", "sync_data", "sync_header"}
    /\ LET strategies == IF pc = "sync_extend" THEN extend_sync_strategies
                         ELSE write_sync_strategies
       IN  \E k \in CanFail(strategies, m_buffer, m_length) :
              SyncUpTo(strategies, m_buffer, m_length, k)
    /\ pc' = "aborted"
    /\ UNCHANGED <<config, verifier, i, j, m_length, m_buffer, mappings, file>>

\* ---- the oldest simulator: one barrier list, no file handle object
\* the list sync_data walks
sync_operations == write_sync_strategies

\* sync_data(fd, base, size) with member failing returning an error, or with
\* no error when failing = 0
sync_data(base, size, failing) ==
    /\ failing \in {0} \cup CanFail(sync_operations, base, size)
    /\ SyncUpTo(sync_operations, base, size, failing)

\* pc after the last call of an iteration of the outer loop
LoopEnd == IF i + 1 < MaxIterations THEN "extend" ELSE "done"

\* ftruncate(fd, file_size)
BasicTruncate ==
    /\ policy = "basic" /\ pc = "extend" /\ i < MaxIterations
    /\ \E ok \in BOOLEAN :
          IF ok
          THEN /\ file' = ftruncate(file, SinglePageCount(i) * PAGE_SIZE)
               /\ m_length' = SinglePageCount(i) * PAGE_SIZE
               /\ pending' = Append(pending, ExtendOp(SinglePageCount(i) * PAGE_SIZE))
               /\ trace' = StepTrace \o <<"ftruncate">>
               /\ pc' = "sync_truncate"
          ELSE /\ trace' = StepTrace \o <<"ftruncate", "failed">>
               /\ pc' = "aborted"
               /\ UNCHANGED <<file, m_length, pending>>
    /\ UNCHANGED <<config, verifier, i, j, m_buffer, mappings, disk, last_sync>>

\* "sync_data(fd, nullptr, 0);" after the ftruncate: what it returns is dropped
BasicSyncTruncate ==
    /\ policy = "basic" /\ pc = "sync_truncate"
    /\ \E failing \in 0..Len(sync_operations) : sync_data(0, 0, failing)
    /\ pc' = IF write_strategy = "mmap" THEN "map" ELSE "write_body"
    /\ j' = 1
    /\ UNCHANGED <<config, verifier, i, m_length, m_buffer, mappings, file>>

\* base = mmap(nullptr, file_size, ...)
BasicMap ==
    /\ policy = "basic" /\ pc = "map"
    /\ \E ok \in BOOLEAN :
          IF ok
          THEN /\ m_buffer' = m_length
               /\ mappings' = Append(mappings, m_length)
               /\ trace' = Append(trace, "mmap")
               /\ pc' = "write_body"
          ELSE /\ trace' = trace \o <<"mmap", "failed">>
               /\ pc' = "aborted"
               /\ UNCHANGED <<m_buffer, mappings>>
    /\ UNCHANGED <<config, verifier, i, j, m_length, file, disk, pending, last_sync>>

\* write_data(fd, base, offset, page_buffer, PAGE_SIZE): memcpy, or a pwrite
\* that can come back short; event names the write group
BasicWrite(offset, pattern, event, ok) ==
    /\ ok \/ write_strategy = "write"
    /\ IF ok
       THEN /\ file' = StoreAt(file, offset, memset_pattern(pattern, PAGE_SIZE))
            /\ pending' = Append(pending, WriteOp(offset, pattern, PAGE_SIZE))
            /\ trace' = Append(trace, event)
       ELSE /\ trace' = trace \o <<event, "failed">>
            /\ UNCHANGED <<file, pending>>

\* "Simulate updating the data portion of the file."
BasicWriteBody ==
    /\ policy = "basic" /\ pc = "write_body"
    /\ \E ok \in BOOLEAN :
          /\ BasicWrite((SinglePageCount(i) - j) * PAGE_SIZE, <<j>>, "write_data", ok)
          /\ j' = IF ok THEN j + 1 ELSE j
          /\ pc' = IF ~ok THEN "aborted"
                   ELSE IF j + 1 < SinglePageCount(i) THEN "write_body" ELSE "sync_body"
    /\ UNCHANGED <<config, verifier, i, m_length, m_buffer, mappings, disk, last_sync>>

\* "if (sync_data(fd, base, file_size))" after the body
BasicSyncBody ==
    /\ policy = "basic" /\ pc = "sync_body"
    /\ \E failing \in 0..Len(sync_operations) :
          /\ sync_data(m_buffer, m_length, failing)
          /\ pc' = IF failing = 0 THEN "write_page0" ELSE "aborted"
    /\ UNCHANGED <<config, verifier, i, j, m_length, m_buffer, mappings, file>>

\* "Simulate updating the header portion of the file."
BasicWriteHeader ==
    /\ policy = "basic" /\ pc = "write_page0"
    /\ \E ok \in BOOLEAN :
          /\ BasicWrite(0, <<SinglePageCount(i) * PAGE_SIZE>>, "write_header", ok)
          /\ pc' = IF ok THEN "sync_page0" ELSE "aborted"
    /\ UNCHANGED <<config, verifier, i, j, m_length, m_buffer, mappings, disk, last_sync>>

\* "if (sync_data(fd, base, file_size))" after the header; without a mapping
\* the iteration ends here
BasicSyncHeader ==
    /\ policy = "basic" /\ pc = "sync_page0"
    /\ \E failing \in 0..Len(sync_operations) :
          /\ sync_data(m_buffer, m_length, failing)
          /\ pc' = IF failing # 0 THEN "aborted"
                   ELSE IF write_strategy = "mmap" THEN "unmap" ELSE LoopEnd
          /\ i' = IF failing = 0 /\ write_strategy # "mmap" THEN i + 1 ELSE i
    /\ UNCHANGED <<config, verifier, j, m_length, m_buffer, mappings, file>>

\* munmap(base, file_size), then the next iteration
BasicUnmap ==
    /\ policy = "basic" /\ pc = "unmap"
    /\ \E ok \in BOOLEAN :
          IF ok
          THEN /\ mappings' = SelectSeq(mappings, LAMBDA m : m # m_buffer)
               /\ m_buffer' = 0
               /\ trace' = Append(trace, "munmap")
               /\ pc' = LoopEnd
               /\ i' = i + 1
          ELSE /\ trace' = trace \o <<"munmap", "failed">>
               /\ pc' = "aborted"
               /\ UNCHANGED <<mappings, m_buffer, i>>
    /\ UNCHANGED <<config, verifier, j, m_length, file, disk, pending, last_sync>>

BasicNext ==
    \/ BasicTruncate \/ BasicSyncTruncate \/ BasicMap \/ BasicWriteBody
    \/ BasicSyncBody \/ BasicWriteHeader \/ BasicSyncHeader \/ BasicUnmap

\* -------------------------------------------------------------- verifiers
\* words of the verifier's mapping: whole pages
Mapped(f) == Len(f.pages) * PAGE_SIZE

\* ---- multi-slot verifier
\* what memory past the end of the mapping can make of a slot
OutsideMapping == {"fault", "mismatch", "consistent", "in_flight"}

\* a comparison of the first entry of the data page only
EntryClasses_FirstEntry(f, n) ==
    LET offset == Word(f, n * HeaderEntrySize)
        index == Word(f, n * HeaderEntrySize + 1)
        version == Word(f, n * HeaderEntrySize + 2)
        marker == Word(f, n * HeaderEntrySize + 3)
        byte_offset == (offset + index * PAGE_SIZE) % SizeMod
        entry == ReadAt(f, byte_offset, 2)
    IN  IF marker # SIZE_MAX THEN {"skipped"}
        ELSE IF byte_offset > (f.size - PAGE_SIZE) % SizeMod THEN {"out_of_bounds"}
        ELSE IF byte_offset + PAGE_SIZE > Mapped(f) THEN OutsideMapping
        ELSE IF entry = <<index, version>> THEN {"consistent"}
        ELSE IF entry = <<index, (version + 1) % SizeMod>> THEN {"in_flight"}
        ELSE {"mismatch"}

\* one iteration of the loop over header_entries: the ways slot n can be
\* classified (one way, unless the page read leaves the mapping)
EntryClasses(f, n) ==
    LET offset == Word(f, n * HeaderEntrySize)
        index == Word(f, n * HeaderEntrySize + 1)
        version == Word(f, n * HeaderEntrySize + 2)
        marker == Word(f, n * HeaderEntrySize + 3)
        byte_offset == (offset + index * PAGE_SIZE) % SizeMod
        page == ReadAt(f, byte_offset, PAGE_SIZE)
    IN  IF marker # SIZE_MAX THEN {"skipped"}
        ELSE IF byte_offset > (f.size - PAGE_SIZE) % SizeMod THEN {"out_of_bounds"}
        ELSE IF byte_offset + PAGE_SIZE > Mapped(f) THEN OutsideMapping
        ELSE IF page = memset_pattern(<<index, version>>, PAGE_SIZE) THEN {"consistent"}
        ELSE IF page = memset_pattern(<<index, (version + 1) % SizeMod>>, PAGE_SIZE)
             THEN {"in_flight"}
        ELSE {"mismatch"}

Failing == {"out_of_bounds", "mismatch"}

\* the loop from slot n on, run to its end: the verdicts it can reach
RECURSIVE VerifyEntries(_, _, _)
VerifyEntries(f, n, ok) ==
    IF n = HeaderEntries THEN {IF ok THEN "success" ELSE "failure"}
    ELSE UNION {IF c = "fault" THEN {"fault"}
                ELSE VerifyEntries(f, n + 1, ok /\ c \notin Failing) :
                c \in EntryClasses(f, n)}

\* the multi-slot verifier's main on file f
MultiVerdicts(f) ==
    IF f.size = 0 THEN {"error"} ELSE VerifyEntries(f, 0, TRUE)

\* ---- single-header verifier
\* a claimed size taken from the last word of page 0
FileSizeFromHeader_LastWord(f) == Word(f, PAGE_SIZE - 1)

FileSizeFromHeader(f) == Word(f, 0)
\* a page count taken from the size of the file in place of the header
PageCountFromHeader_Actual(f) == f.size \div PAGE_SIZE

PageCountFromHeader(f) == FileSizeFromHeader(f) \div PAGE_SIZE

\* a header check without the test for a header smaller than a page
HeaderClass_NoEmpty(f) ==
    IF ReadAt(f, 0, PAGE_SIZE) = memset_pattern(<<f.size>>, PAGE_SIZE) THEN "match"
    ELSE IF FileSizeFromHeader(f) > f.size THEN "past_end"
    ELSE "benign"

\* "Verify header."
HeaderClass(f) ==
    IF ReadAt(f, 0, PAGE_SIZE) = memset_pattern(<<f.size>>, PAGE_SIZE) THEN "match"
    ELSE IF FileSizeFromHeader(f) > f.size THEN "past_end"
    ELSE IF FileSizeFromHeader(f) < PAGE_SIZE THEN "empty"
    ELSE "benign"

\* the page the body loop looks at when its counter is n
BodyPage(f, n) == (PageCountFromHeader(f) - n) % SizeMod

\* one iteration of "Verify the body."
BodyClass(f, n) ==
    LET byte_offset == (BodyPage(f, n) * PAGE_SIZE) % SizeMod
    IN  IF byte_offset + PAGE_SIZE > Mapped(f) THEN "fault"
        ELSE IF ReadAt(f, byte_offset, PAGE_SIZE) = memset_pattern(<<n>>, PAGE_SIZE)
             THEN "page_ok"
        ELSE "page_mismatch"

\* the single-header verifier's main on file f
SingleVerify(f) ==
    IF f.size = 0
    THEN [verdict |-> "error", header |-> "none", examined |-> {}, bad |-> {}]
    ELSE IF HeaderClass(f) \in {"past_end", "empty"}
    THEN [verdict |-> "failure", header |-> HeaderClass(f), examined |-> {}, bad |-> {}]
    ELSE LET count == PageCountFromHeader(f)
             walk == 1..((count - 1) % SizeMod)
             bad == {n \in walk : BodyClass(f, n) # "page_ok"}
         IN  [verdict |-> IF \E n \in walk : BodyClass(f, n) = "fault" THEN "fault"
                          ELSE IF bad = {} THEN "success" ELSE "failure",
              header |-> HeaderClass(f),
              examined |-> {BodyPage(f, n) : n \in walk},
              bad |-> {BodyPage(f, n) : n \in bad}]

\* ---- the verifiers step by step
\* fstat and mmap: a zero-length file cannot be mapped
VerifyOpen ==
    /\ pc = "verify"
    /\ IF file.size = 0
       THEN /\ pc' = "exited" /\ verdict' = "error" /\ exit_code' = 1
            /\ UNCHANGED i
       ELSE /\ pc' = IF policy = "multi" THEN "entries" ELSE "header"
            /\ i' = 0
            /\ UNCHANGED <<verdict, exit_code>>
    /\ UNCHANGED <<config, j, m_length, m_buffer, file, disk, pending, last_sync, trace,
                   mappings, success, classes>>

VerifyEntry ==
    /\ pc = "entries" /\ i < HeaderEntries
    /\ \E c \in EntryClasses(file, i) :
          /\ classes' = classes @@ (i :> c)
          /\ success' = (success /\ c \notin Failing)
          /\ pc' = IF c = "fault" THEN "fault" ELSE pc
    /\ i' = i + 1
    /\ UNCHANGED <<config, j, m_length, m_buffer, file, disk, pending, last_sync, trace,
                   mappings, verdict, exit_code>>

VerifyHeader ==
    /\ pc = "header"
    /\ classes' = classes @@ (0 :> HeaderClass(file))
    /\ IF HeaderClass(file) \in {"past_end", "empty"}
       THEN /\ pc' = "exited" /\ verdict' = "failure" /\ exit_code' = 1
            /\ UNCHANGED i
       ELSE /\ pc' = "body"
            /\ i' = (PageCountFromHeader(file) - 1) % SizeMod
            /\ UNCHANGED <<verdict, exit_code>>
    /\ UNCHANGED <<config, j, m_length, m_buffer, file, disk, pending, last_sync, trace,
                   mappings, success>>

\* a walk that ends at the first page that does not match
VerifyBodyPage_FirstMismatch ==
    /\ pc = "body" /\ i > 0
    /\ classes' = classes @@ (BodyPage(file, i) :> BodyClass(file, i))
    /\ success' = (success /\ BodyClass(file, i) = "page_ok")
    /\ pc' = IF BodyClass(file, i) = "fault" THEN "fault" ELSE pc
    /\ i' = IF BodyClass(file, i) = "page_ok" THEN i - 1 ELSE 0
    /\ UNCHANGED <<config, j, m_length, m_buffer, file, disk, pending, last_sync, trace,
                   mappings, verdict, exit_code>>

VerifyBodyPage ==
    /\ pc = "body" /\ i > 0
    /\ classes' = classes @@ (BodyPage(file, i) :> BodyClass(file, i))
    /\ success' = (success /\ BodyClass(file, i) = "page_ok")
    /\ pc' = IF BodyClass(file, i) = "fault" THEN "fault" ELSE pc
    /\ i' = i - 1
    /\ UNCHANGED <<config, j, m_length, m_buffer, file, disk, pending, last_sync, trace,
                   mappings, verdict, exit_code>>

\* "if (success) ... Verfication succeeded."; return success;
VerifyReturn ==
    /\ \/ pc = "entries" /\ i = HeaderEntries
       \/ pc = "body" /\ i = 0
    /\ verdict' = IF success THEN "success" ELSE "failure"
    /\ exit_code' = IF success THEN 1 ELSE 0
    /\ pc' = "exited"
    /\ UNCHANGED <<config, i, j, m_length, m_buffer, file, disk, pending, last_sync,
                   trace, mappings, success, classes>>

VerifyNext ==
    \/ VerifyOpen \/ VerifyEntry \/ VerifyHeader \/ VerifyBodyPage \/ VerifyReturn

\* ---- files handed to the verifiers
\* the given pages cut to size words
MakeFile(size, pages) ==
    [size |-> size,
     pages |-> [p \in 1..PagesFor(size) |->
                  [k \in 1..PAGE_SIZE |->
                     IF (p - 1) * PAGE_SIZE + k <= size THEN pages[p][k] ELSE 0]]]

\* page 0 with record first in slot 0 and record last in slot 15
TablePage(first, last) ==
    [k \in 1..PAGE_SIZE |->
        IF k <= HeaderEntrySize THEN first[k]
        ELSE IF k > (HeaderEntries - 1) * HeaderEntrySize
                /\ k <= HeaderEntries * HeaderEntrySize
             THEN last[k - (HeaderEntries - 1) * HeaderEntrySize]
        ELSE 0]

\* a page tiled by pattern except for one word
Torn(pattern, k, w) == [memset_pattern(pattern, PAGE_SIZE) EXCEPT ![k] = w]

FirstRecords ==
    {<<o, x, v, m>> : o \in {0, PAGE_SIZE, SizeMod - PAGE_SIZE}, x \in {0, 1, 2},
                      v \in {0, 1, SIZE_MAX}, m \in {SIZE_MAX, 0}}
LastRecords ==
    {<<0, 0, 0, 0>>, <<PAGE_SIZE, 1, 0, SIZE_MAX>>, <<2 * PAGE_SIZE, 1, 5, 1>>}
DataPages ==
    {memset_pattern(<<a, b>>, PAGE_SIZE) : a \in {0, 1, 2}, b \in {0, 1, 2}}
        \cup {Torn(<<1, 0>>, PAGE_SIZE, 1), Torn(<<0, 1>>, 3, 2)}
LastDataPages == {memset_pattern(<<1, 0>>, PAGE_SIZE), memset_pattern(<<1, 3>>, PAGE_SIZE)}
MultiSizes == {0, PAGE_SIZE \div 2, PAGE_SIZE, 2 * PAGE_SIZE, 3 * PAGE_SIZE}

\* slot 0 holds {offset, 3, version 2, sentinel}; its data page holds version 3
ExampleInput ==
    MakeFile(5 * PAGE_SIZE,
             <<TablePage(<<PAGE_SIZE, 3, 2, SIZE_MAX>>, <<0, 0, 0, 0>>),
               ZeroPage, ZeroPage, ZeroPage, memset_pattern(<<3, 3>>, PAGE_SIZE)>>)

MultiInputs ==
    {MakeFile(n, <<TablePage(r, q), d, e>>) :
        n \in MultiSizes, r \in FirstRecords, q \in LastRecords,
        d \in DataPages, e \in LastDataPages}
        \cup {ExampleInput}

HeaderPages ==
    {memset_pattern(<<s>>, PAGE_SIZE) :
        s \in {0, 1, PAGE_SIZE, 2 * PAGE_SIZE, 2 * PAGE_SIZE + 1, 3 * PAGE_SIZE,
               4 * PAGE_SIZE, 5 * PAGE_SIZE}}
        \cup {Torn(<<s>>, PAGE_SIZE, 0) : s \in {2 * PAGE_SIZE, 3 * PAGE_SIZE, 4 * PAGE_SIZE}}
BodyPages ==
    {memset_pattern(<<c>>, PAGE_SIZE) : c \in 0..3} \cup {Torn(<<1>>, PAGE_SIZE, 2)}
SingleSizes == {0, PAGE_SIZE \div 2, PAGE_SIZE, 2 * PAGE_SIZE, 3 * PAGE_SIZE, 4 * PAGE_SIZE}

\* ten pages, page 0 tiled with the size, every body page but page 5 holding
\* its counter
ExampleSingleInput ==
    MakeFile(FirstPageCount * PAGE_SIZE,
             [p \in 1..FirstPageCount |->
                 IF p = 1 THEN memset_pattern(<<FirstPageCount * PAGE_SIZE>>, PAGE_SIZE)
                 ELSE IF p = 6 THEN ZeroPage
                 ELSE memset_pattern(<<FirstPageCount - (p - 1)>>, PAGE_SIZE)])

SingleInputs ==
    {MakeFile(n, <<h, a, b, c>>) :
        n \in SingleSizes, h \in HeaderPages, a \in BodyPages, b \in BodyPages,
        c \in BodyPages}
        \cup {ExampleSingleInput}

VerifyInit ==
    /\ policy \in {"multi", "single"}
    /\ file \in IF policy = "multi" THEN MultiInputs ELSE SingleInputs
    /\ pc = "verify"
    /\ write_strategy = "write"
    /\ write_sync_strategies = <<"none">>
    /\ extend_sync_strategies = <<"none">>
    /\ i = 0
    /\ j = 0
    /\ m_length = 0
    /\ m_buffer = 0
    /\ disk = file
    /\ pending = <<>>
    /\ last_sync = <<>>
    /\ trace = <<>>
    /\ mappings = <<>>
    /\ success = TRUE
    /\ classes = <<>>
    /\ verdict = "none"
    /\ exit_code = -1

\* -------------------------------------------------------- specifications
\* the simulators run with any write path and barrier lists, no power loss
Init == SimInit(SyncLists)
Next == SimNext
Spec == Init /\ [][Next]_vars

\* barrier lists that end every step with a full flush
FullFlushLists(p) == {l \in SyncLists(p) : \E k \in 1..Len(l) : l[k] = "fullfsync"}

\* the simulators under full-flush barrier lists, with a power loss at any point
CrashInit == SimInit(FullFlushLists)
CrashNext == SimNext \/ Crash
SpecCrash == CrashInit /\ [][CrashNext]_vars

\* barrier lists for the runs in which calls fail (the oldest simulator has
\* one list and no "none" or "fsyncparent")
RunLists(p) ==
    IF p = "basic" THEN {<<"msync", "fullfsync">>, <<"fsync">>}
    ELSE IF p = "multi" THEN {<<"none">>, <<"msync", "fullfsync">>, <<"fsyncparent", "fsync">>}
    ELSE {<<"none">>, <<"msync">>, <<"msync", "fullfsync">>, <<"fsync">>}

\* the three simulators from the creation of the file on, any call may fail
RunInit ==
    /\ policy \in {"multi", "single", "basic"}
    /\ write_strategy \in {"mmap", "write"}
    /\ write_sync_strategies \in RunLists(policy)
    /\ extend_sync_strategies \in RunLists(policy)
    /\ policy = "basic" => extend_sync_strategies = write_sync_strategies
    /\ pc = "create"
    /\ i = 0
    /\ j = 0
    /\ m_length = 0
    /\ m_buffer = 0
    /\ file \in {EmptyFile, StaleFile}
    /\ disk = file
    /\ pending = <<>>
    /\ last_sync = <<>>
    /\ trace = <<>>
    /\ mappings = <<>>
    /\ success = TRUE
    /\ classes = <<>>
    /\ verdict = "none"
    /\ exit_code = -1
RunNext ==
    \/ Create \/ SimNext \/ ExtendFails \/ WriteFails \/ SyncFails \/ BasicNext
SpecRun == RunInit /\ [][RunNext]_vars

\* the verifiers run on files drawn from MultiInputs and SingleInputs
SpecVerify == VerifyInit /\ [][VerifyNext]_vars

\* ----------------------------------------------------------------- claims
\* the fields of header record n of file f
Record(f, n) ==
    [offset |-> Word(f, n * HeaderEntrySize), index |-> Word(f, n * HeaderEntrySize + 1),
     version |-> Word(f, n * HeaderEntrySize + 2), marker |-> Word(f, n * HeaderEntrySize + 3)]

Slots == 0..(HeaderEntries - 1)

\* main of the multi-slot simulator stands right after a completed rewrite
RewriteDone ==
    /\ policy = "multi"
    /\ \/ pc = "write_data" /\ j > 0
       \/ pc = "extend" /\ i > 0
       \/ pc = "done"

\* C1: multi-slot policy without a crash: after every completed rewrite, and
\* after the whole run, the multi-slot verifier's verdict on the file as
\* written is success, and every header record that carries the sentinel
\* points at a data page tiled with exactly that record's (index, version),
\* whatever the write path and the barrier lists.
C1_CleanMultiSlot ==
    RewriteDone =>
        /\ MultiVerdicts(file) = {"success"}
        /\ \A n \in Slots :
              LET r == Record(file, n)
              IN  r.marker = SIZE_MAX =>
                     ReadAt(file, r.offset + r.index * PAGE_SIZE, PAGE_SIZE)
                        = memset_pattern(<<r.index, r.version>>, PAGE_SIZE)

\* the run is over, every slot holds a sentinel record, the verdict is success
C1_Witness ==
    /\ policy = "multi" /\ pc = "done"
    /\ \A n \in Slots : Record(file, n).marker = SIZE_MAX
    /\ MultiVerdicts(file) = {"success"}

\* main of the single-header simulator stands right after a completed transaction
TransactionDone ==
    /\ policy = "single"
    /\ \/ pc = "extend" /\ i > 0
       \/ pc = "done"

\* C2: single-header policy without a crash: after every completed
\* transaction i, and after the whole run, the single-header verifier reports
\* success on the file as written, the claimed size is (10+10i)*PAGE_SIZE, and
\* all (10+10i)-1 body pages are examined and match.
C2_CleanSingleHeader ==
    TransactionDone =>
        /\ SingleVerify(file).verdict = "success"
        /\ SingleVerify(file).header = "match"
        /\ FileSizeFromHeader(file) = (10 + 10 * (i - 1)) * PAGE_SIZE
        /\ SingleVerify(file).examined = 1..((10 + 10 * (i - 1)) - 1)
        /\ SingleVerify(file).bad = {}

\* the second transaction is complete and verifies with 19 body pages
C2_Witness ==
    /\ policy = "single" /\ pc = "done" /\ i = 2
    /\ SingleVerify(file).verdict = "success"
    /\ Cardinality(SingleVerify(file).examined) = 19

\* C3: multi-slot policy under a crash, each applied barrier list making every
\* earlier operation durable: once the first extension is durable, a crash at
\* any point leaves a file on which the verdict is success, every slot being
\* unwritten, consistent or in-flight-interrupted.
C3_CrashMultiSlot ==
    (policy = "multi" /\ pc = "crashed" /\ disk.size > 0) =>
        /\ MultiVerdicts(disk) = {"success"}
        /\ \A n \in Slots :
              EntryClasses(disk, n) \subseteq {"skipped", "consistent", "in_flight"}

\* a crash between a data write and its header write: one slot is one version ahead
C3_Witness ==
    /\ policy = "multi" /\ pc = "crashed" /\ disk.size > 0
    /\ \E n \in Slots : EntryClasses(disk, n) = {"in_flight"}
    /\ \E n \in Slots : EntryClasses(disk, n) = {"consistent"}

\* C4: single-header policy under a crash, each applied barrier list making
\* every earlier operation durable: once the first transaction's header is
\* durable, a crash at any point leaves a file on which the single-header
\* verifier's verdict is success.
C4_CrashSingleHeader ==
    (policy = "single" /\ pc = "crashed" /\ FileSizeFromHeader(disk) # 0) =>
        SingleVerify(disk).verdict = "success"

\* C5: single-header policy, each applied barrier list making every earlier
\* operation durable: in every durable state, crashed or not, the size encoded
\* in page 0 is at most the durable file length, and the verifier does not
\* classify the header as pointing past the body.
C5_HeaderWithinData ==
    policy = "single" =>
        /\ FileSizeFromHeader(disk) <= disk.size
        /\ SingleVerify(disk).header # "past_end"

\* a crash left the header of transaction 0 on a file already extended for transaction 1
C5_Witness ==
    /\ policy = "single" /\ pc = "crashed"
    /\ FileSizeFromHeader(disk) = 10 * PAGE_SIZE
    /\ disk.size = 20 * PAGE_SIZE

\* the page of f at word offset at is entirely tiled with (a, b)
TiledPair(f, at, a, b) ==
    \A k \in 0..(PAGE_SIZE - 1) : Word(f, at + k) = IF k % 2 = 0 THEN a ELSE b

\* the page of f at word offset at is entirely tiled with c
TiledWord(f, at, c) == \A k \in 0..(PAGE_SIZE - 1) : Word(f, at + k) = c

\* where record n points, as a mathematical integer
Target(f, n) == Record(f, n).offset + Record(f, n).index * PAGE_SIZE

\* record n carries the sentinel and its data page lies inside the file
InBounds(f, n) ==
    /\ Record(f, n).marker = SIZE_MAX
    /\ Target(f, n) + PAGE_SIZE <= f.size

\* the data page of record n holds the record's version or the next one
\* (the version is a size_t: the next one after SIZE_MAX is 0)
Tolerated(f, n) ==
    LET r == Record(f, n)
    IN  \/ TiledPair(f, Target(f, n), r.index, r.version)
        \/ TiledPair(f, Target(f, n), r.index, (r.version + 1) % SizeMod)

\* C6: multi-slot verifier, version tolerance: a header record that carries
\* the sentinel and is in bounds is classified consistent when its data page
\* is entirely tiled with (index, version), in-flight-interrupted when it is
\* entirely tiled with (index, version+1), and a mismatch otherwise; only the
\* mismatch fails the run, and then the overall verdict is failure.
C6_VersionTolerance ==
    policy = "multi" =>
        \A n \in DOMAIN classes :
            InBounds(file, n) =>
                LET r == Record(file, n)
                IN  /\ classes[n] =
                          IF TiledPair(file, Target(file, n), r.index, r.version)
                          THEN "consistent"
                          ELSE IF TiledPair(file, Target(file, n), r.index,
                                            (r.version + 1) % SizeMod)
                          THEN "in_flight"
                          ELSE "mismatch"
                    /\ classes[n] = "mismatch" => ~success
                    /\ (classes[n] = "mismatch" /\ pc = "exited") => verdict = "failure"
                    /\ (\A m \in DOMAIN classes :
                            m # n => classes[m] \notin {"out_of_bounds", "mismatch", "fault"})
                          => (success <=> classes[n] # "mismatch")

\* the spec's example: header {offset, 3, version 2, sentinel}, data page of
\* version 3, classified in-flight-interrupted, verdict success
C6_Witness ==
    /\ policy = "multi" /\ file = ExampleInput /\ pc = "exited"
    /\ classes[0] = "in_flight"
    /\ verdict = "success"

\* C7: multi-slot verifier, header bounds: a header record that carries the
\* sentinel and whose offset + index*PAGE_SIZE, as a mathematical integer, is
\* greater than actualFileSize - PAGE_SIZE is classified out of bounds (a
\* failure) without its data page being read, also when the file is shorter
\* than a page and when the sum exceeds the range of size_t.
C7_HeaderBounds ==
    policy = "multi" =>
        \A n \in DOMAIN classes :
            (Record(file, n).marker = SIZE_MAX /\ Target(file, n) > file.size - PAGE_SIZE)
                => classes[n] = "out_of_bounds"

\* C8: multi-slot verifier, overall verdict: all 16 records are examined, a
\* record without the sentinel is skipped, and the verdict is success exactly
\* when no record that carries the sentinel is out of bounds or a mismatch.
C8_OverallVerdict ==
    (policy = "multi" /\ file.size > 0) =>
        /\ pc # "fault"
        /\ \A n \in DOMAIN classes :
              Record(file, n).marker # SIZE_MAX <=> classes[n] = "skipped"
        /\ pc = "exited" =>
              /\ DOMAIN classes = Slots
              /\ verdict \in {"success", "failure"}
              /\ verdict = "success" <=>
                    \A n \in Slots :
                        Record(file, n).marker = SIZE_MAX =>
                            InBounds(file, n) /\ Tolerated(file, n)

\* C9: single-header verifier, hard corruption: when page 0 is not the actual
\* file size tiled over the page and the size it claims is larger than the
\* actual size, or smaller than PAGE_SIZE, the verifier stops at the header
\* with a failure and examines no body page.
C9_HardCorruption ==
    (/\ policy = "single"
     /\ 0 \in DOMAIN classes
     /\ ~TiledWord(file, 0, file.size)
     /\ \/ FileSizeFromHeader(file) > file.size
        \/ FileSizeFromHeader(file) < PAGE_SIZE)
        => /\ pc = "exited"
           /\ verdict = "failure"
           /\ DOMAIN classes = {0}
           /\ classes[0] \in {"past_end", "empty"}

\* a header claiming five pages on a file of at most four
C9_Witness ==
    /\ policy = "single" /\ pc = "exited"
    /\ FileSizeFromHeader(file) = 5 * PAGE_SIZE
    /\ file.size >= 2 * PAGE_SIZE
    /\ verdict = "failure"

\* C10: single-header verifier, lagging header: when the size S claimed by
\* page 0 satisfies PAGE_SIZE <= S < actual size, the header is classified
\* benign; the verdict is success exactly when every body page k with
\* 1 <= k < S/PAGE_SIZE is tiled with S/PAGE_SIZE - k, and no page from
\* S/PAGE_SIZE on is examined.
C10_LaggingHeader ==
    LET S == FileSizeFromHeader(file)
        count == S \div PAGE_SIZE
    IN  (policy = "single" /\ PAGE_SIZE <= S /\ S < file.size) =>
            /\ 0 \in DOMAIN classes => classes[0] = "benign"
            /\ DOMAIN classes \subseteq 0..(count - 1)
            /\ pc \notin {"verify", "header"} =>
                  success = \A k \in (DOMAIN classes) \ {0} :
                               TiledWord(file, k * PAGE_SIZE, count - k)
            /\ pc = "exited" =>
                  /\ DOMAIN classes = 0..(count - 1)
                  /\ verdict \in {"success", "failure"}
                  /\ verdict = "success" <=>
                        \A k \in 1..(count - 1) :
                            TiledWord(file, k * PAGE_SIZE, count - k)

\* a header of three pages on a file of four: pages 1 and 2 match, page 3 is
\* not looked at, the verdict is success
C10_Witness ==
    /\ policy = "single" /\ pc = "exited"
    /\ FileSizeFromHeader(file) = 3 * PAGE_SIZE /\ file.size = 4 * PAGE_SIZE
    /\ classes[0] = "benign"
    /\ DOMAIN classes = {0, 1, 2}
    /\ ~TiledWord(file, 3 * PAGE_SIZE, 0)
    /\ verdict = "success"

\* C11: single-header policy, first transaction interrupted before its header
\* write reached storage: the file has its 10 pages, page 0 is all zero and
\* body pages 9..1 hold their counters; the single-header verifier classifies
\* the header benign and its verdict is not failure.
C11_InterruptedFirstTransaction ==
    (/\ policy = "single" /\ pc = "crashed"
     /\ disk.size = FirstPageCount * PAGE_SIZE
     /\ TiledWord(disk, 0, 0)
     /\ \A k \in 1..(FirstPageCount - 1) :
           TiledWord(disk, k * PAGE_SIZE, FirstPageCount - k))
        => /\ SingleVerify(disk).header = "benign"
           /\ SingleVerify(disk).verdict # "failure"

\* C12: verifier exit code: a verifier that has exited with verdict success
\* has exit code 0, and one that has exited with verdict failure (a hard
\* corruption or a mismatch) has exit code 1.
C12_ExitCode ==
    pc = "exited" =>
        /\ verdict = "success" => exit_code = 0
        /\ verdict = "failure" => exit_code = 1

\* C13: every crash prefix is classifiable: on the file a crash leaves at any
\* point of a run, the length-0 file before the first extension included, the
\* verifier of the policy completes with a success or failure verdict built
\* from its defined classifications, and every word it reads lies inside the
\* file.
C13_CrashPrefixClassifiable ==
    pc = "crashed" =>
        IF policy = "multi"
        THEN /\ MultiVerdicts(disk) \subseteq {"success", "failure"}
             /\ HeaderEntries * HeaderEntrySize <= disk.size
             /\ \A n \in Slots :
                   /\ EntryClasses(disk, n) \subseteq
                         {"skipped", "out_of_bounds", "consistent", "in_flight", "mismatch"}
                   /\ EntryClasses(disk, n) \subseteq {"consistent", "in_flight", "mismatch"}
                         => Target(disk, n) + PAGE_SIZE <= disk.size
        ELSE /\ SingleVerify(disk).verdict \in {"success", "failure"}
             /\ SingleVerify(disk).header \in {"match", "past_end", "empty", "benign"}
             /\ PAGE_SIZE <= disk.size
             /\ \A k \in SingleVerify(disk).examined : (k + 1) * PAGE_SIZE <= disk.size

\* ---- what the trace says about the barrier list applied last
Members == {"none", "msync", "fsync", "fullfsync", "fsyncparent"}
DataCalls == {"ftruncate", "munmap", "mmap", "write_data", "write_header"}

\* the trace ends with a call that failed
FailedNow == Len(trace) > 0 /\ trace[Len(trace)] = "failed"

\* index of the last event at or before k that is not a barrier member
RECURSIVE LastCall(_)
LastCall(k) == IF k = 0 \/ trace[k] \notin Members THEN k ELSE LastCall(k - 1)

\* the barrier members the trace ends with (before the failure, if any)
InvokedEnd == IF FailedNow THEN Len(trace) - 1 ELSE Len(trace)
Invoked == SubSeq(trace, LastCall(InvokedEnd) + 1, InvokedEnd)

\* the list main was applying: the write list after a write, else the extend list
AppliedList ==
    IF LastCall(InvokedEnd) > 0
       /\ trace[LastCall(InvokedEnd)] \in {"write_data", "write_header"}
    THEN write_sync_strategies ELSE extend_sync_strategies

\* the system calls of the invoked members, in their order
InvokedCalls ==
    LET calling == SelectSeq(Invoked, LAMBDA m :
                       m # "none" /\ (m = "msync" => (m_buffer # 0 /\ m_length # 0)))
    IN  [k \in 1..Len(calling) |->
            CASE calling[k] = "msync" -> "msync"
              [] calling[k] = "fsync" -> "fsync"
              [] calling[k] = "fsyncparent" -> "fsync_parent"
              [] calling[k] = "fullfsync" -> "F_FULLFSYNC"]

\* C14: barrier composition preserves order: an applied barrier list invokes
\* its members once each in the configured order, a member that fails being
\* the last one invoked, and the system calls come in that order; for the
\* list [msync, fullfsync] on a mapped file msync is called before F_FULLFSYNC.
C14_BarrierOrder ==
    Invoked # <<>> =>
        /\ Len(Invoked) <= Len(AppliedList)
        /\ Invoked = SubSeq(AppliedList, 1, Len(Invoked))
        /\ ~FailedNow => Invoked = AppliedList
        /\ last_sync = InvokedCalls
        /\ (AppliedList = <<"msync", "fullfsync">> /\ m_buffer # 0 /\ ~FailedNow)
              => last_sync = <<"msync", "F_FULLFSYNC">>

\* the multi-slot simulator on the mapped path has applied [msync, fullfsync]
\* after a data write
C14_Witness ==
    /\ policy = "multi" /\ write_strategy = "mmap" /\ pc = "write_header"
    /\ write_sync_strategies = <<"msync", "fullfsync">>
    /\ Invoked = <<"msync", "fullfsync">>
    /\ last_sync = <<"msync", "F_FULLFSYNC">>

\* C15: flush-mapping without a mapping: when there is no mapped buffer (the
\* positional write path, or the oldest simulator's barrier after ftruncate)
\* or the tracked length is zero, an msync member calls nothing, is never the
\* member that fails, leaves the pending operations as they were, and the
\* members after it are applied.
C15_FlushMappingNoop ==
    (Invoked # <<>> /\ (m_buffer = 0 \/ m_length = 0)
     /\ \E k \in 1..Len(Invoked) : Invoked[k] = "msync") =>
        /\ \A k \in 1..Len(last_sync) : last_sync[k] # "msync"
        /\ FailedNow => Invoked[Len(Invoked)] # "msync"
        /\ ~FailedNow => Invoked = AppliedList
        /\ (AppliedList = <<"msync">> /\ policy # "basic") =>
              (~FailedNow /\ last_sync = <<>> /\ pending # <<>> /\ disk # file)
        /\ (AppliedList = <<"msync", "fullfsync">> /\ ~FailedNow) =>
              (last_sync = <<"F_FULLFSYNC">> /\ pending = <<>> /\ disk = file)

\* the positional path has applied [msync, fullfsync] after a data write: only
\* the full flush was called
C15_Witness ==
    /\ write_strategy = "write" /\ pc = "write_header"
    /\ write_sync_strategies = <<"msync", "fullfsync">>
    /\ Invoked = <<"msync", "fullfsync">>
    /\ last_sync = <<"F_FULLFSYNC">>
    /\ disk = file

\* C16: re-extension never truncates: no step of a run lowers the logical
\* length or the length of the file, so the length after transaction i is at
\* most the length after any later transaction, and every extension passes a
\* length at least the current logical length.
C16_NeverTruncates ==
    [][/\ m_length' >= m_length
       /\ file'.size >= file.size
       /\ (pc = "extend" /\ pc' \in {"sync_extend", "sync_truncate"}) =>
              (m_length' > m_length /\ file'.size = m_length')]_vars

\* the second extension of the single-header policy has grown the file
C16_Witness ==
    /\ policy = "single" /\ pc = "sync_extend" /\ i = 1
    /\ m_length = 20 * PAGE_SIZE
    /\ file.size = 20 * PAGE_SIZE

\* the file handle has been constructed
HandleExists ==
    /\ policy \in {"multi", "single"}
    /\ pc # "create"
    /\ i = 0 => (Len(trace) >= 3 /\ trace[3] = "fsync_parent")

C18_CreationOrder ==
    /\ pc = "create" => (trace = <<>> /\ m_length = 0 /\ pending = <<>> /\ file = disk)
    /\ file = StaleFile =>
          /\ pc \in {"create", "aborted"}
          /\ \A k \in 1..Len(trace) : trace[k] # "fsync_parent"
    /\ (i = 0 /\ pc # "create") =>
          /\ \A k \in 1..(IF Len(trace) < 3 THEN Len(trace) ELSE 3) :
                trace[k] \notin DataCalls
          /\ Len(trace) > 3 =>
                /\ trace[3] = "fsync_parent"
                /\ "open" \in {trace[1], trace[2]}
    /\ (i = 0 /\ pc = "extend") =>
          (m_length = 0 /\ file = EmptyFile /\ pending = <<>> /\ m_buffer = 0)
    /\ (i = 0 /\ pc = "aborted" /\ Len(trace) <= 4 /\ FailedNow
        /\ trace[Len(trace) - 1] \in {"open", "opendir", "fsync_parent"}) =>
          (m_length = 0 /\ file \in {EmptyFile, StaleFile} /\ file = disk /\ pending = <<>>)

\* the file has been created and its directory fsynced; nothing else happened yet
C18_Witness ==
    /\ pc = "extend" /\ i = 0
    /\ trace \in {<<"open", "opendir", "fsync_parent">>, <<"opendir", "open", "fsync_parent">>}
    /\ file = EmptyFile
    /\ m_length = 0

\* C19: failures abort the run: once a call has failed (the extension, a
\* mapping call, a write, or a member of a barrier list, the list applied
\* right after an extension included), it is the last call of the run: no
\* later barrier member, write, mapping or extension is issued.
C19_FailuresAbort ==
    (\E k \in 1..Len(trace) : trace[k] = "failed") =>
        (FailedNow /\ pc = "aborted")

\* the header write stands at the end of the trace, or the data write does
LastIs(event) == Len(trace) > 0 /\ trace[Len(trace)] = event

\* the trace before its last event ends with list, and before that with one of calls
Follows(list, calls) ==
    LET n == Len(trace) - 1
    IN  /\ n - Len(list) >= 1
        /\ SubSeq(trace, n - Len(list) + 1, n) = list
        /\ trace[n - Len(list)] \in calls

\* C20: data before header: in both policies a header write comes right after
\* the whole write-barrier list that follows a data write; a data write comes
\* after another data write of the same group, after the whole write-barrier
\* list that follows the previous header write, or after the whole
\* extend-barrier list that follows the extension; and the next extension
\* comes after the write-barrier list that follows the header write.
C20_DataBeforeHeader ==
    policy \in {"multi", "single"} =>
        /\ LastIs("write_header") => Follows(write_sync_strategies, {"write_data"})
        /\ LastIs("write_data") =>
              \/ policy = "single" /\ trace[Len(trace) - 1] = "write_data"
              \/ policy = "multi" /\ Follows(write_sync_strategies, {"write_header"})
              \/ Follows(extend_sync_strategies, {"ftruncate", "mmap"})
        /\ (pc \in {"extend", "done"} /\ i > 0) =>
              /\ Invoked = write_sync_strategies
              /\ trace[LastCall(InvokedEnd)] = "write_header"

\* the second rewrite of the multi-slot policy has written its data page
C20_Witness ==
    /\ policy = "multi" /\ pc = "sync_data" /\ j = 1
    /\ LastIs("write_data")
    /\ Follows(write_sync_strategies, {"write_header"})

\* the step appends a write to the pending operations
WriteIssued == Len(pending') = Len(pending) + 1 /\ pending'[Len(pending')].op = "write"

\* C21: writes stay inside the file: every write a simulator issues has
\* offset + size at most the logical length, which a successful extension has
\* made the length of the file; on the mapped path the one live mapping covers
\* the whole file at that time, and at every write of main the bounds
\* assertion of the mapped write holds, so the write goes ahead.
C21_WritesInsideFile ==
    /\ []((pc \in {"write_data", "write_header"} /\ write_strategy = "mmap") =>
             ENABLED (MultiWriteData \/ MultiWriteHeader
                         \/ SingleWriteBody \/ SingleWriteHeader))
    /\ [][WriteIssued =>
             LET o == pending'[Len(pending')]
             IN  /\ o.offset >= 0
                 /\ o.offset + o.length <= m_length
                 /\ m_length > 0
                 /\ m_length = file.size
                 /\ write_strategy = "mmap" =>
                       (m_buffer = m_length /\ mappings = <<m_length>>)]_vars

\* the mapped path has written the last page of the file
C21_Witness ==
    /\ policy = "multi" /\ write_strategy = "mmap" /\ pc = "sync_data"
    /\ Len(pending) > 0
    /\ pending[Len(pending)].op = "write"
    /\ pending[Len(pending)].offset + pending[Len(pending)].length = m_length
    /\ mappings = <<m_length>>

\* how many of the first n rewrites of a growth step went to slot s
RewritesOf(s, n) == (n + 15 - s) \div 16

\* the file after n rewrites of growth step step: slot s has had versions
\* 0, 1, ... in turn, its data page and its header record hold the last one,
\* and a slot not rewritten yet still has the record of the step before
AfterRewrites(step, n) ==
    \A s \in Slots :
        LET count == RewritesOf(s, n)
            base == (16 * step + 1) * PAGE_SIZE
        IN  /\ ReadAt(file, base + s * PAGE_SIZE, PAGE_SIZE) =
                  IF count = 0 THEN ZeroPage
                  ELSE memset_pattern(<<s, count - 1>>, PAGE_SIZE)
            /\ ReadAt(file, s * HeaderEntrySize, HeaderEntrySize) =
                  IF count > 0 THEN <<base, s, count - 1, SIZE_MAX>>
                  ELSE IF step > 0
                       THEN <<(16 * (step - 1) + 1) * PAGE_SIZE, s, 7, SIZE_MAX>>
                  ELSE <<0, 0, 0, 0>>

\* C22: multi-slot progression: in growth step i the file has 16*(i+1)+1
\* pages; the n-th rewrite of the step goes to slot n mod 16 with version
\* n div 16, so every slot gets version v before any slot gets v+1, and a step
\* ends after each slot has had versions 0..7; the header record of a slot is
\* {base offset of the step, slot, version just written, sentinel}.
C22_MultiProgression ==
    policy = "multi" =>
        /\ pc = "write_data" =>
              /\ file.size = (16 * (i + 1) + 1) * PAGE_SIZE
              /\ j \in 0..127
              /\ AfterRewrites(i, j)
        /\ (pc \in {"extend", "done"} /\ i > 0) =>
              /\ file.size = (16 * i + 1) * PAGE_SIZE
              /\ j = 127
              /\ AfterRewrites(i - 1, 128)

\* the first growth step is complete: every slot ended on version 7
C22_Witness ==
    /\ policy = "multi" /\ pc = "extend" /\ i = 1
    /\ file.size = 17 * PAGE_SIZE
    /\ \A s \in Slots : Record(file, s).version = 7
    /\ ReadAt(file, 16 * PAGE_SIZE, PAGE_SIZE) = memset_pattern(<<15, 7>>, PAGE_SIZE)

\* C23: finalized data is not rewritten: no step of the multi-slot policy in
\* growth step i changes a data page added by an earlier step (pages 1..16*i)
\* or a word of page 0 past the 16 header records; every write is a whole
\* page at one of the 16 pages added by step i or one header record at its
\* slot's place in the table.
C23_FinalizedNotRewritten ==
    [][policy = "multi" =>
          /\ \A p \in 2..Len(file.pages) :
                p <= 16 * i + 1 => file'.pages[p] = file.pages[p]
          /\ Len(file.pages) > 0 =>
                \A k \in (HeaderEntries * HeaderEntrySize + 1)..PAGE_SIZE :
                    file'.pages[1][k] = file.pages[1][k]
          /\ WriteIssued =>
                LET o == pending'[Len(pending')]
                IN  \/ /\ o.length = PAGE_SIZE
                       /\ o.offset \in {(16 * i + 1 + s) * PAGE_SIZE : s \in Slots}
                    \/ /\ o.length = HeaderEntrySize
                       /\ o.offset \in {s * HeaderEntrySize : s \in Slots}]_vars

\* the second growth step has written its first data page; the first page of
\* the first step still holds its last version
C23_Witness ==
    /\ policy = "multi" /\ pc = "sync_data" /\ i = 1 /\ j = 0
    /\ ReadAt(file, PAGE_SIZE, PAGE_SIZE) = memset_pattern(<<0, 7>>, PAGE_SIZE)
    /\ ReadAt(file, 17 * PAGE_SIZE, PAGE_SIZE) = memset_pattern(<<0, 0>>, PAGE_SIZE)

\* C24: single-header verifier, body failures: when page 0 is the actual file
\* size tiled over the page, the header is classified a match, every body
\* page 1..count-1 is examined whether or not an earlier one failed, and the
\* verdict is failure exactly when some body page k is not tiled with
\* count - k.
C24_BodyFailuresAggregate ==
    LET count == file.size \div PAGE_SIZE
    IN  (policy = "single" /\ file.size >= PAGE_SIZE /\ TiledWord(file, 0, file.size)) =>
            /\ 0 \in DOMAIN classes => classes[0] = "match"
            /\ pc # "fault"
            /\ pc = "exited" =>
                  /\ DOMAIN classes = 0..(count - 1)
                  /\ verdict \in {"success", "failure"}
                  /\ verdict = "failure" <=>
                        \E k \in 1..(count - 1) :
                            ~TiledWord(file, k * PAGE_SIZE, count - k)

\* a header of 10*PAGE_SIZE with 8 matching body pages: page 5 is reported,
\* the pages after it are still examined, the verdict is failure
C24_Witness ==
    /\ policy = "single" /\ file = ExampleSingleInput /\ pc = "exited"
    /\ DOMAIN classes = 0..9
    /\ classes[5] = "page_mismatch"
    /\ \A k \in (1..9) \ {5} : classes[k] = "page_ok"
    /\ verdict = "failure"

\* the growth step the file has been extended for, from its length
StepOfFile == (file.size \div PAGE_SIZE - 1) \div 16 - 1

\* C25: header table of the multi-slot simulator: in every state of a run,
\* each of the 16 record positions p is all zero or holds a record with index
\* p, the sentinel, a version in 0..7 and the base offset of the growth step
\* the file was last extended for or of the step before it, so that
\* offset + index*PAGE_SIZE is a page inside the file.
C25_HeaderTable ==
    (policy = "multi" /\ HandleExists /\ file.size > 0) =>
        \A p \in Slots :
            LET r == Record(file, p)
            IN  \/ ReadAt(file, p * HeaderEntrySize, HeaderEntrySize) = <<0, 0, 0, 0>>
                \/ /\ r.index = p
                   /\ r.marker = SIZE_MAX
                   /\ r.version \in 0..7
                   /\ \/ r.offset = (16 * StepOfFile + 1) * PAGE_SIZE
                      \/ StepOfFile > 0 /\ r.offset = (16 * (StepOfFile - 1) + 1) * PAGE_SIZE
                   /\ r.offset + r.index * PAGE_SIZE + PAGE_SIZE <= file.size

\* in the second growth step slot 0 has its new record and slot 1 still the
\* record of the first step
C25_Witness ==
    /\ policy = "multi" /\ pc = "write_data" /\ i = 1 /\ j = 1
    /\ Record(file, 0).offset = 17 * PAGE_SIZE
    /\ Record(file, 1).offset = PAGE_SIZE
    /\ Record(file, 1).version = 7

\* C26: single-header verifier, torn header: the claimed size is the first
\* word w of page 0 alone; when page 0 is not the actual size tiled over the
\* page and PAGE_SIZE <= w <= actual size (w equal to the actual size with
\* another word differing, or w not a multiple of PAGE_SIZE, included), the
\* header is classified benign, exactly the body pages 1..floor(w/PAGE_SIZE)-1
\* are examined, and the verdict is success exactly when each such page k is
\* tiled with floor(w/PAGE_SIZE) - k.
C26_TornHeader ==
    LET w == Word(file, 0)
        count == w \div PAGE_SIZE
    IN  (/\ policy = "single"
         /\ ~TiledWord(file, 0, file.size)
         /\ PAGE_SIZE <= w /\ w <= file.size) =>
            /\ 0 \in DOMAIN classes => classes[0] = "benign"
            /\ pc # "fault"
            /\ DOMAIN classes \subseteq 0..(count - 1)
            /\ pc = "exited" =>
                  /\ DOMAIN classes = 0..(count - 1)
                  /\ verdict \in {"success", "failure"}
                  /\ verdict = "success" <=>
                        \A k \in 1..(count - 1) :
                            TiledWord(file, k * PAGE_SIZE, count - k)

\* page 0 starts with the actual size of three pages but its last word is
\* zero: benign, pages 1 and 2 match, the verdict is success
C26_Witness ==
    /\ policy = "single" /\ pc = "exited"
    /\ file.size = 3 * PAGE_SIZE
    /\ Word(file, 0) = file.size
    /\ Word(file, PAGE_SIZE - 1) = 0
    /\ classes[0] = "benign"
    /\ verdict = "success"

=============================================================================
